---- MODULE Spec2Model ----
(***************************************************************************)
(* A model of the account-lifecycle and transaction-execution core of      *)
(* workspaces-js: src/src/account/account-manager.ts (AccountManager and   *)
(* its variants, ManagedTransaction) and the key-file helper of            *)
(* src/src/runtime/runtime.ts.                                             *)
(*                                                                         *)
(* Account ids, file names and short names are sequences of one-character  *)
(* strings, so that String.replace, String.startsWith and String.split     *)
(* are computed as JavaScript computes them.  A key pair is identified by  *)
(* its key material, a positive integer; NoKey stands for null/undefined.  *)
(* The key store, the chain and the tracking table are finite maps         *)
(* (functions whose DOMAIN is the set of ids present).                     *)
(***************************************************************************)
EXTENDS Integers, Sequences, FiniteSets, TLC

VARIABLES
    keyStore,          \* KeyStore: account id -> key (network-scoped, one network per manager)
    accountsCreated,   \* AccountManager.accountsCreated: account id -> short name
    chain,             \* on-chain accounts: account id -> available balance
    nextKey,           \* number of keys KeyPairEd25519.fromRandom() has produced so far
    pc,                \* per call: where the caller's sign-and-send is
    tx,                \* per call: the ManagedTransaction being built / sent
    keyPair,           \* per call: executeTransaction's keyPair argument (NoKey: none)
    oldKey,            \* per call: executeTransaction's local oldKey
    outcome,           \* per call: result of account.signAndSendTransaction
    keyBefore,         \* per call (history): key stored for the sender when executeTransaction was entered
    recvKeyBefore,     \* per call (history): key stored for the receiver when signAndSend was entered
    signedWith,        \* per call (history): key stored for the sender when the transaction was signed
    keyRemovals,       \* per call (history): account ids whose key signAndSend asked the manager to delete
    createdOnChain,    \* history: account ids created on-chain by a transaction of this manager
    createRequested,   \* history: receiver ids of managed transactions that got a create-account action
    lastCall,          \* history: the last getKey/setKey/removeKey call and what it returned
    prevCall,          \* history: the call before lastCall
    network,           \* near.config.network
    rootAccount,       \* near.config.rootAccount (NoRoot: not configured)
    fileName,          \* base name of the file findCallerFile() returns
    keyFile,           \* the validator key file at keyFilePath
    grant,             \* tokens the account-creation service gives a new account
    manager,           \* the variant AccountManager.create constructed ("none": none)
    cpc,               \* where AccountManager.create / init is
    error,             \* the error create failed with ("none": none)
    io,                \* history: the collaborator calls create / init made, in order
    listing,           \* history: what keyStore.getAccounts returned
    accounts,          \* initRootAccount's local accounts
    accountId,         \* initRootAccount's local accountId (the chosen root)
    pending,           \* stale-account deletions launched and not yet settled
    deletesIssued,     \* history: the account deletions issued, in order
    temporaryId,       \* addFunds' local temporaryId
    initial,           \* history: key store, chain, key file and root as create (or run) found them
    settled,           \* history: the launched deletions that have settled, each with its status
    subAccount,        \* TestnetSubaccountManager.subAccount (NoRoot: not a sub-account manager)
    clpc,              \* where the manager's cleanup() is
    cleanups,          \* number of cleanup() calls made so far
    rpc,               \* where Runtime.run is
    masterAccount,     \* Runtime.config.masterAccount (NoRoot: not configured)
    server,            \* SandboxRuntime.server: whether beforeConnect has assigned it
    caught,            \* Runtime.run: the error its try block threw ("none": none)
    runResult          \* what the caller of Runtime.run got ("none": still running)

storeVars == <<keyStore, accountsCreated, chain, nextKey>>
callVars == <<pc, tx, keyPair, oldKey, outcome>>
callHist == <<keyBefore, recvKeyBefore, signedWith, keyRemovals, createdOnChain, createRequested>>
keyHist == <<lastCall, prevCall>>
cleanupVars == <<subAccount, clpc, cleanups>>
runVars == <<rpc, masterAccount, server, caught, runResult>>
laterVars == <<cleanupVars, runVars>>
createVars == <<network, rootAccount, fileName, keyFile, grant, manager, cpc, error, io,
                listing, accounts, accountId, temporaryId, initial>>
setupVars == <<network, rootAccount, fileName, keyFile, grant, manager, cpc, error, io,
               listing, accounts, accountId, pending, settled, deletesIssued, temporaryId, initial,
               laterVars>>
vars == <<storeVars, callVars, callHist, keyHist, setupVars>>

(***************************************************************************)
(* Bounds and value spaces                                                 *)
(***************************************************************************)
NoKey == 0
NumKeys == 2           \* key pairs a caller can supply: 1..NumKeys
MaxFresh == 1          \* keys KeyPairEd25519.fromRandom() may generate in one run
MaxActions == 2        \* actions appended to one transaction

SuppliedKeys == 1..NumKeys
FreshKey(n) == NumKeys + n             \* the n-th random key (n >= 1): never one a caller supplied

Dot == <<".">>
RootId == <<"r">>
ShortNames == {<<"a">>}

\* NearAccount.makeSubAccount / TestnetRuntime.makeSubAccount: `${name}.${parent}`
makeSubAccount(name, parent) == name \o Dot \o parent

Accounts == {RootId} \cup {makeSubAccount(s, RootId) : s \in ShortNames}

(***************************************************************************)
(* Finite maps                                                             *)
(***************************************************************************)
EmptyMap == [x \in {} |-> NoKey]
MapSet(m, k, v) == [x \in (DOMAIN m) \cup {k} |-> IF x = k THEN v ELSE m[x]]
MapRemove(m, k) == [x \in (DOMAIN m) \ {k} |-> m[x]]

(***************************************************************************)
(* JavaScript string operations on sequences of characters                 *)
(***************************************************************************)
\* String.prototype.startsWith
StartsWith(s, p) == Len(p) <= Len(s) /\ SubSeq(s, 1, Len(p)) = p

\* String.prototype.indexOf, 1-based; 0 when p does not occur in s
IndexOf(s, p) ==
    LET hits == {i \in 1..(Len(s) - Len(p) + 1) : SubSeq(s, i, i + Len(p) - 1) = p}
    IN  IF hits = {} THEN 0 ELSE CHOOSE i \in hits : \A j \in hits : i <= j

\* String.prototype.replace with a string pattern: only the first occurrence is replaced
Replace(s, p, r) ==
    LET i == IndexOf(s, p)
    IN  IF i = 0 THEN s
        ELSE SubSeq(s, 1, i - 1) \o r \o SubSeq(s, i + Len(p), Len(s))

(***************************************************************************)
(* Key store (external collaborator: getKey / setKey / removeKey)          *)
(***************************************************************************)
\* AccountManager.getKey: the stored key, or null
getKey(store, id) == IF id \in DOMAIN store THEN store[id] ELSE NoKey

\* keyStore.setKey(networkId, id, key)
storeSetKey(store, id, key) == MapSet(store, id, key)

\* AccountManager.removeKey / deleteKey: keyStore.removeKey(networkId, id)
removeKey(store, id) == MapRemove(store, id)

\* AccountManager.setKey, line 103: keyPair ?? KeyPairEd25519.fromRandom()
WrongKeyChoice(kp, fresh) == fresh
keyChoice(kp, fresh) == IF kp # NoKey THEN kp ELSE fresh

\* AccountManager.setKey: the store after the call, and the value returned (a re-read)
setKeyStore(store, id, kp, fresh) == storeSetKey(store, id, keyChoice(kp, fresh))
setKeyResult(store, id, kp, fresh) == getKey(setKeyStore(store, id, kp, fresh), id)

(***************************************************************************)
(* AccountManager.addAccountCreated                                        *)
(***************************************************************************)
shortName(account, sender) == Replace(account, Dot \o sender, <<>>)

SkipAddAccountCreated(table, account, sender) == table
WrongAddAccountCreated(table, account, sender) == MapSet(table, sender, shortName(account, sender))
addAccountCreated(table, account, sender) == MapSet(table, account, shortName(account, sender))

(***************************************************************************)
(* Chain RPC provider (external collaborator): what a submitted            *)
(* transaction does to the accounts when its status is SuccessValue.       *)
(***************************************************************************)
CreateAccountAction == [kind |-> "CreateAccount", beneficiaryId |-> <<>>]
DeleteAccountAction(b) == [kind |-> "DeleteAccount", beneficiaryId |-> b]

hasAction(t, kind) == \E i \in 1..Len(t.actions) : t.actions[i].kind = kind

\* one action applied to the receiver account
applyAction(ch, receiverId, a) ==
    IF a.kind = "CreateAccount" THEN MapSet(ch, receiverId, 0)
    ELSE LET rest == MapRemove(ch, receiverId)
             b == a.beneficiaryId
         IN  IF b \in DOMAIN rest THEN [rest EXCEPT ![b] = @ + ch[receiverId]] ELSE rest

\* whether the action can execute on the chain as it is
actionValid(ch, receiverId, a) ==
    IF a.kind = "CreateAccount" THEN receiverId \notin DOMAIN ch
    ELSE receiverId \in DOMAIN ch

RECURSIVE applyActions(_, _, _)
applyActions(ch, receiverId, actions) ==
    IF actions = <<>> THEN ch
    ELSE applyActions(applyAction(ch, receiverId, Head(actions)), receiverId, Tail(actions))

RECURSIVE actionsValid(_, _, _)
actionsValid(ch, receiverId, actions) ==
    IF actions = <<>> THEN TRUE
    ELSE /\ actionValid(ch, receiverId, Head(actions))
         /\ actionsValid(applyAction(ch, receiverId, Head(actions)), receiverId, Tail(actions))

Statuses == {"SuccessValue", "Failure", "throw"}

(***************************************************************************)
(* Building and sending a ManagedTransaction; executeTransaction           *)
(***************************************************************************)
Tasks == DOMAIN pc
NoTx == [senderId |-> <<>>, receiverId |-> <<>>, actions |-> <<>>, delete |-> FALSE]

\* AccountManager.createTransaction -> new ManagedTransaction(this, sender, receiver)
CreateTransaction(t, sender, receiver) ==
    /\ pc[t] = "idle"
    /\ tx' = [tx EXCEPT ![t] = [senderId |-> sender, receiverId |-> receiver,
                                actions |-> <<>>, delete |-> FALSE]]
    /\ pc' = [pc EXCEPT ![t] = "building"]
    /\ UNCHANGED <<storeVars, keyPair, oldKey, outcome, callHist, keyHist, setupVars>>

\* ManagedTransaction.createAccount: register the receiver, then append the action
TxCreateAccount(t) ==
    /\ pc[t] = "building"
    /\ Len(tx[t].actions) < MaxActions
    /\ accountsCreated' = addAccountCreated(accountsCreated, tx[t].receiverId, tx[t].senderId)
    /\ tx' = [tx EXCEPT ![t].actions = Append(@, CreateAccountAction)]
    /\ createRequested' = createRequested \cup {tx[t].receiverId}
    /\ UNCHANGED <<keyStore, chain, nextKey, pc, keyPair, oldKey, outcome,
                   keyBefore, recvKeyBefore, signedWith, keyRemovals, createdOnChain, keyHist, setupVars>>

\* ManagedTransaction.deleteAccount: set the delete flag, then append the action
markDelete(t, beneficiaryId) ==
    [t EXCEPT !.delete = TRUE, !.actions = Append(@, DeleteAccountAction(beneficiaryId))]

TxDeleteAccount(t, beneficiaryId) ==
    /\ pc[t] = "building"
    /\ Len(tx[t].actions) < MaxActions
    /\ tx' = [tx EXCEPT ![t] = markDelete(@, beneficiaryId)]
    /\ UNCHANGED <<storeVars, pc, keyPair, oldKey, outcome, callHist, keyHist, setupVars>>

\* executeTransaction, line 137: if (keyPair), the key is read and swapped before the send
WrongFirstStep(kp) == "send"
firstStep(kp) == IF kp # NoKey THEN "getOld" ELSE "send"

\* ManagedTransaction.signAndSend(keyPair?) calls manager.executeTransaction(this, keyPair)
SignAndSend(t, kp) ==
    /\ pc[t] = "building"
    /\ keyPair' = [keyPair EXCEPT ![t] = kp]
    /\ oldKey' = [oldKey EXCEPT ![t] = NoKey]
    /\ keyBefore' = [keyBefore EXCEPT ![t] = getKey(keyStore, tx[t].senderId)]
    /\ recvKeyBefore' = [recvKeyBefore EXCEPT ![t] = getKey(keyStore, tx[t].receiverId)]
    /\ pc' = [pc EXCEPT ![t] = firstStep(kp)]
    /\ UNCHANGED <<storeVars, tx, outcome, signedWith, keyRemovals, createdOnChain,
                   createRequested, keyHist, setupVars>>

\* executeTransaction, line 138: oldKey = await this.getKey(account.accountId)
SaveOldKey(t) ==
    /\ pc[t] = "getOld"
    /\ oldKey' = [oldKey EXCEPT ![t] = getKey(keyStore, tx[t].senderId)]
    /\ pc' = [pc EXCEPT ![t] = "setTemp"]
    /\ UNCHANGED <<storeVars, tx, keyPair, outcome, callHist, keyHist, setupVars>>

\* executeTransaction, line 139: await this.setKey(account.accountId, keyPair)
SwapInKey(t) ==
    /\ pc[t] = "setTemp"
    /\ keyStore' = setKeyStore(keyStore, tx[t].senderId, keyPair[t], NoKey)
    /\ pc' = [pc EXCEPT ![t] = "send"]
    /\ UNCHANGED <<accountsCreated, chain, nextKey, tx, keyPair, oldKey, outcome, callHist, keyHist, setupVars>>

\* executeTransaction, line 143: await account.signAndSendTransaction(...)
\* where control goes after the submission: a throw leaves executeTransaction at once
afterSubmit(status) == IF status = "throw" THEN "thrown" ELSE "restore"

Submit(t, status) ==
    /\ pc[t] = "send"
    /\ status = "SuccessValue" => actionsValid(chain, tx[t].receiverId, tx[t].actions)
    /\ outcome' = [outcome EXCEPT ![t] = status]
    /\ signedWith' = [signedWith EXCEPT ![t] = getKey(keyStore, tx[t].senderId)]
    /\ chain' = IF status = "SuccessValue"
                THEN applyActions(chain, tx[t].receiverId, tx[t].actions)
                ELSE chain
    /\ createdOnChain' = IF status = "SuccessValue" /\ hasAction(tx[t], "CreateAccount")
                         THEN createdOnChain \cup {tx[t].receiverId}
                         ELSE createdOnChain
    /\ pc' = [pc EXCEPT ![t] = afterSubmit(status)]
    /\ UNCHANGED <<keyStore, accountsCreated, nextKey, tx, keyPair, oldKey,
                   keyBefore, recvKeyBefore, keyRemovals, createRequested, keyHist, setupVars>>

\* executeTransaction, line 146: the key written back is the one read at line 138
WrongRestoredKey(old, kp) == kp
restoredKey(old, kp) == old

\* executeTransaction, lines 145-147: if (oldKey) setKey(sender, oldKey); a null
\* oldKey (no temporary key given, or no key stored before) leaves the store as it is
RemovingRestoreStore(store, sender, old, kp) ==
    IF old # NoKey
    THEN setKeyStore(store, sender, restoredKey(old, kp), NoKey)
    ELSE IF kp # NoKey THEN removeKey(store, sender) ELSE store
restoreStore(store, sender, old, kp) ==
    IF old # NoKey
    THEN setKeyStore(store, sender, restoredKey(old, kp), NoKey)
    ELSE store

\* executeTransaction, lines 145-149: if (oldKey) setKey(sender, oldKey); return outcome
RestoreKey(t) ==
    /\ pc[t] = "restore"
    /\ keyStore' = restoreStore(keyStore, tx[t].senderId, oldKey[t], keyPair[t])
    /\ pc' = [pc EXCEPT ![t] = "returned"]
    /\ UNCHANGED <<accountsCreated, chain, nextKey, tx, keyPair, oldKey, outcome, callHist, keyHist, setupVars>>

\* signAndSend, line 365: executionResult.status.SuccessValue !== undefined && this.delete
WrongShouldDeleteKey(t, status) == t.delete
shouldDeleteKey(t, status) == status = "SuccessValue" /\ t.delete

\* signAndSend, lines 365-367: after a deletion only the key is deleted; the entry of
\* the deleted account in accountsCreated is left where it is
ForgetDeleted(table, id, deleted) == IF deleted THEN MapRemove(table, id) ELSE table
trackedAfterDelete(table, id, deleted) == table

\* signAndSend, lines 365-369: delete the receiver's key after a successful deletion
AfterExecute(t) ==
    /\ pc[t] = "returned"
    /\ IF shouldDeleteKey(tx[t], outcome[t])
       THEN /\ keyStore' = removeKey(keyStore, tx[t].receiverId)
            /\ keyRemovals' = [keyRemovals EXCEPT ![t] = @ \cup {tx[t].receiverId}]
       ELSE UNCHANGED <<keyStore, keyRemovals>>
    /\ accountsCreated' = trackedAfterDelete(accountsCreated, tx[t].receiverId,
                                             shouldDeleteKey(tx[t], outcome[t]))
    /\ pc' = [pc EXCEPT ![t] = "done"]
    /\ UNCHANGED <<chain, nextKey, tx, keyPair, oldKey, outcome,
                   keyBefore, recvKeyBefore, signedWith, createdOnChain, createRequested, keyHist, setupVars>>

\* the caller has its outcome (or its exception) and goes on to the next transaction
Return(t) ==
    /\ pc[t] \in {"done", "thrown"}
    /\ pc' = [pc EXCEPT ![t] = "idle"]
    /\ tx' = [tx EXCEPT ![t] = NoTx]
    /\ keyPair' = [keyPair EXCEPT ![t] = NoKey]
    /\ oldKey' = [oldKey EXCEPT ![t] = NoKey]
    /\ outcome' = [outcome EXCEPT ![t] = "none"]
    /\ keyBefore' = [keyBefore EXCEPT ![t] = NoKey]
    /\ recvKeyBefore' = [recvKeyBefore EXCEPT ![t] = NoKey]
    /\ signedWith' = [signedWith EXCEPT ![t] = NoKey]
    /\ keyRemovals' = [keyRemovals EXCEPT ![t] = {}]
    /\ UNCHANGED <<storeVars, createdOnChain, createRequested, keyHist, setupVars>>

NoCall == [op |-> "none", accountId |-> <<>>, keyPair |-> NoKey, ret |-> NoKey, before |-> {}]

\* a key store as the program can find it: any of the accounts may hold a supplied key
KeyStores == UNION {[ids -> SuppliedKeys] : ids \in SUBSET Accounts}

NoRoot == <<>>
NoFile == [exists |-> FALSE, secret_key |-> NoKey, private_key |-> NoKey]

\* no cleanup() has been called on the manager, which is no sub-account manager
NoCleanup ==
    /\ subAccount = NoRoot
    /\ clpc = "idle"
    /\ cleanups = 0

\* no legacy Runtime is in use
NoRun ==
    /\ rpc = "idle"
    /\ masterAccount = NoRoot
    /\ server = FALSE
    /\ caught = "none"
    /\ runResult = "none"

\* no AccountManager.create is in progress: the manager exists and is initialised
NoSetup ==
    /\ network = "sandbox"
    /\ rootAccount = RootId
    /\ fileName = <<>>
    /\ keyFile = NoFile
    /\ grant = 0
    /\ manager = "SandboxManager"
    /\ cpc = "ready"
    /\ error = "none"
    /\ io = <<>>
    /\ listing = <<>>
    /\ accounts = <<>>
    /\ accountId = NoRoot
    /\ pending = {}
    /\ deletesIssued = <<>>
    /\ temporaryId = NoRoot
    /\ initial = [keyStore |-> EmptyMap, chain |-> EmptyMap, keyFile |-> NoFile,
                  rootAccount |-> NoRoot]
    /\ settled = {}
    /\ NoCleanup
    /\ NoRun

InitCalls(tasks) ==
    /\ pc = [t \in tasks |-> "idle"]
    /\ tx = [t \in tasks |-> NoTx]
    /\ keyPair = [t \in tasks |-> NoKey]
    /\ oldKey = [t \in tasks |-> NoKey]
    /\ outcome = [t \in tasks |-> "none"]
    /\ keyBefore = [t \in tasks |-> NoKey]
    /\ recvKeyBefore = [t \in tasks |-> NoKey]
    /\ signedWith = [t \in tasks |-> NoKey]
    /\ keyRemovals = [t \in tasks |-> {}]

Init ==
    /\ keyStore \in KeyStores
    /\ accountsCreated = EmptyMap
    /\ chain = [x \in {RootId} |-> 0]
    /\ nextKey = 0
    /\ InitCalls({1})
    /\ createdOnChain = {}
    /\ createRequested = {}
    /\ lastCall = NoCall
    /\ prevCall = NoCall
    /\ NoSetup

Next ==
    \/ \E t \in Tasks, s \in Accounts, r \in Accounts : CreateTransaction(t, s, r)
    \/ \E t \in Tasks : TxCreateAccount(t)
    \/ \E t \in Tasks : TxDeleteAccount(t, RootId)
    \/ \E t \in Tasks, kp \in SuppliedKeys \cup {NoKey} : SignAndSend(t, kp)
    \/ \E t \in Tasks : SaveOldKey(t)
    \/ \E t \in Tasks : SwapInKey(t)
    \/ \E t \in Tasks, status \in Statuses : Submit(t, status)
    \/ \E t \in Tasks : RestoreKey(t)
    \/ \E t \in Tasks : AfterExecute(t)
    \/ \E t \in Tasks : Return(t)

Spec == Init /\ [][Next]_vars

(***************************************************************************)
(* Properties of executeTransaction and signAndSend (specification Spec)   *)
(***************************************************************************)

\* C1: once executeTransaction(tx, keyPair) with a temporary keyPair has returned
\* (with a success or a failure outcome) or thrown, the key stored for tx.senderId
\* is the key that was stored for it before the call.
C1_KeyRestoredOnEveryExit ==
    \A t \in Tasks :
        (pc[t] \in {"returned", "thrown"} /\ keyPair[t] # NoKey /\ keyBefore[t] # NoKey)
            => getKey(keyStore, tx[t].senderId) = keyBefore[t]

\* C2: signAndSend asks for the receiver's key to be removed exactly when the
\* transaction holds a delete-account action and the outcome is a success; the
\* key is then gone from the store; after a failure outcome or a throw, and for a
\* transaction without a delete-account action, a key that was stored for the
\* receiver is still stored.
C2_KeyRemovedIffDeleteSucceeded ==
    \A t \in Tasks :
        pc[t] \in {"done", "thrown"} =>
            LET removes == hasAction(tx[t], "DeleteAccount") /\ outcome[t] = "SuccessValue"
            IN  /\ keyRemovals[t] = IF removes THEN {tx[t].receiverId} ELSE {}
                /\ removes => getKey(keyStore, tx[t].receiverId) = NoKey
                /\ (~removes /\ recvKeyBefore[t] # NoKey)
                       => getKey(keyStore, tx[t].receiverId) # NoKey

C2_Witness ==
    \E t \in Tasks :
        /\ pc[t] = "done"
        /\ hasAction(tx[t], "DeleteAccount")
        /\ outcome[t] = "SuccessValue"
        /\ recvKeyBefore[t] # NoKey
        /\ getKey(keyStore, tx[t].receiverId) = NoKey

\* C6: from the moment a create-account action is added to a managed transaction
\* its receiverId is in accountsCreated: while the transaction is still being
\* built, while it is being sent, and after the send failed or threw.
C6_RegisteredWhenActionAdded ==
    \A t \in Tasks :
        hasAction(tx[t], "CreateAccount") => tx[t].receiverId \in DOMAIN accountsCreated

C6_Witness ==
    \E t \in Tasks :
        /\ pc[t] = "thrown"
        /\ hasAction(tx[t], "CreateAccount")
        /\ tx[t].receiverId \in DOMAIN accountsCreated
        /\ tx[t].receiverId \notin DOMAIN chain

\* C7 (as claimed): every account id in accountsCreated was created on-chain by
\* this manager.
C7_TrackedWasCreatedOnChain ==
    \A id \in DOMAIN accountsCreated : id \in createdOnChain

\* C7 (amended): every account id in accountsCreated is the receiverId of a managed
\* transaction of this manager to which a create-account action was added; the
\* account need not have been created on-chain.
C7_TrackedWasRequested ==
    \A id \in DOMAIN accountsCreated : id \in createRequested

C7_Witness ==
    \E id \in DOMAIN accountsCreated :
        /\ id \in createRequested
        /\ id \notin createdOnChain
        /\ \A t \in Tasks : pc[t] = "idle"

(***************************************************************************)
(* The key API called directly: setKey, getKey, removeKey                  *)
(* (specification SpecKeys)                                                *)
(***************************************************************************)
storedKeys(store) == {store[id] : id \in DOMAIN store}

\* AccountManager.setKey(id, keyPair?)
CallSetKey(id, kp) ==
    /\ kp = NoKey => nextKey < MaxFresh
    /\ LET fresh == FreshKey(nextKey + 1)
       IN  /\ keyStore' = setKeyStore(keyStore, id, kp, fresh)
           /\ lastCall' = [op |-> "setKey", accountId |-> id, keyPair |-> kp,
                           ret |-> setKeyResult(keyStore, id, kp, fresh),
                           before |-> storedKeys(keyStore)]
    /\ nextKey' = IF kp = NoKey THEN nextKey + 1 ELSE nextKey
    /\ prevCall' = lastCall
    /\ UNCHANGED <<accountsCreated, chain, callVars, callHist, setupVars>>

\* AccountManager.getKey(id)
CallGetKey(id) ==
    /\ lastCall' = [op |-> "getKey", accountId |-> id, keyPair |-> NoKey,
                    ret |-> getKey(keyStore, id), before |-> storedKeys(keyStore)]
    /\ prevCall' = lastCall
    /\ UNCHANGED <<storeVars, callVars, callHist, setupVars>>

\* AccountManager.removeKey(id)
CallRemoveKey(id) ==
    /\ keyStore' = removeKey(keyStore, id)
    /\ lastCall' = [op |-> "removeKey", accountId |-> id, keyPair |-> NoKey,
                    ret |-> NoKey, before |-> storedKeys(keyStore)]
    /\ prevCall' = lastCall
    /\ UNCHANGED <<accountsCreated, chain, nextKey, callVars, callHist, setupVars>>

InitKeys ==
    /\ keyStore = EmptyMap
    /\ accountsCreated = EmptyMap
    /\ chain = [x \in {RootId} |-> 0]
    /\ nextKey = 0
    /\ InitCalls({1})
    /\ createdOnChain = {}
    /\ createRequested = {}
    /\ lastCall = NoCall
    /\ prevCall = NoCall
    /\ NoSetup

NextKeys ==
    \/ \E id \in Accounts, kp \in SuppliedKeys \cup {NoKey} : CallSetKey(id, kp)
    \/ \E id \in Accounts : CallGetKey(id)
    \/ \E id \in Accounts : CallRemoveKey(id)

SpecKeys == InitKeys /\ [][NextKeys]_vars

\* C9: setKey(id, kp) returns kp and stores it, so that a getKey(id) that follows
\* it with no key-store write in between returns kp; with no key pair supplied,
\* setKey stores and returns a key that is new (neither stored before nor one a
\* caller holds), and the getKey that follows returns that key.
C9_SetKeyGetKeyRoundTrip ==
    /\ lastCall.op = "setKey" =>
          /\ lastCall.ret # NoKey
          /\ getKey(keyStore, lastCall.accountId) = lastCall.ret
          /\ IF lastCall.keyPair # NoKey
             THEN lastCall.ret = lastCall.keyPair
             ELSE lastCall.ret \notin lastCall.before \cup SuppliedKeys
    /\ (lastCall.op = "getKey" /\ prevCall.op = "setKey"
            /\ prevCall.accountId = lastCall.accountId) =>
          /\ lastCall.ret = prevCall.ret
          /\ prevCall.keyPair # NoKey => lastCall.ret = prevCall.keyPair

C9_Witness ==
    /\ lastCall.op = "getKey"
    /\ prevCall.op = "setKey"
    /\ prevCall.accountId = lastCall.accountId
    /\ prevCall.keyPair # NoKey
    /\ prevCall.keyPair \notin prevCall.before
    /\ lastCall.ret = prevCall.keyPair

(***************************************************************************)
(* addAccountCreated on arbitrary names (specification SpecNames)          *)
(***************************************************************************)
MaxShortLen == 4       \* characters of a short name
MaxSenderLen == 2      \* characters of a sender id
Chars == {"a", "b", "."}

\* names made of dot-separated, non-empty parts, of at most n characters
WellFormed(s) ==
    /\ s[1] # "." /\ s[Len(s)] # "."
    /\ \A i \in 1..(Len(s) - 1) : ~(s[i] = "." /\ s[i + 1] = ".")
Names(n) == {s \in UNION {[1..k -> Chars] : k \in 1..n} : WellFormed(s)}

\* manager.addAccountCreated(short + '.' + sender, sender) on the manager the call
\* record names, which has an empty tracking table
CallAddAccountCreated ==
    /\ lastCall.op = "pending"
    /\ accountsCreated' = addAccountCreated(accountsCreated,
                              makeSubAccount(lastCall.short, lastCall.senderId),
                              lastCall.senderId)
    /\ lastCall' = [lastCall EXCEPT !.op = "addAccountCreated"]
    /\ UNCHANGED <<keyStore, chain, nextKey, callVars, callHist, prevCall, setupVars>>

InitNames ==
    /\ keyStore = EmptyMap
    /\ accountsCreated = EmptyMap
    /\ chain = EmptyMap
    /\ nextKey = 0
    /\ InitCalls({1})
    /\ createdOnChain = {}
    /\ createRequested = {}
    /\ \E short \in Names(MaxShortLen), sender \in Names(MaxSenderLen) :
          lastCall = [op |-> "pending", short |-> short, senderId |-> sender]
    /\ prevCall = NoCall
    /\ NoSetup

NextNames == CallAddAccountCreated

SpecNames == InitNames /\ [][NextNames]_vars

\* C5: after addAccountCreated(short + '.' + senderId, senderId) the tracking table
\* maps that account id to short, whatever short and senderId are.
C5_ShortNameIsSuffixStripped ==
    lastCall.op = "addAccountCreated" =>
        LET id == makeSubAccount(lastCall.short, lastCall.senderId)
        IN  /\ id \in DOMAIN accountsCreated
            /\ accountsCreated[id] = lastCall.short

(***************************************************************************)
(* AccountManager.create and the variants' init()                          *)
(* (specification SpecCreate)                                              *)
(***************************************************************************)
Threshold == 1000                      \* toYocto('1000'), in whole tokens
Networks == {"sandbox", "testnet", "mainnet"}
F1 == <<"f", "1">>
F2 == <<"f", "2">>
F3 == <<"f", "3">>
G1 == <<"g", "1">>
StoredIds == {F1, F2, F3, G1}             \* account ids a testnet key store may hold
TempId == <<"d", "e", "v">>            \* randomAccountId(): a 'dev-...' id
RandomSuffixes == {<<"8">>, <<"9">>}   \* randomAccountId(prefix, ''): prefix + random digits
FileNames == {<<"f", ".", "t", "s">>, <<"f", ".", "a", ".", "j", "s">>, <<"f", ".", "m", "d">>}
InitBalances == {0, 999, 1000}         \* available balance of an account that exists
Grants == {200, 1000}                  \* what the creation service funds a new account with

\* AccountManager.create, lines 52-60: the variant the switch constructs
WrongSelectManager(net) == IF net = "sandbox" THEN "SandboxManager" ELSE "TestnetManager"
selectManager(net) ==
    IF net = "sandbox" THEN "SandboxManager"
    ELSE IF net = "testnet" THEN "TestnetManager"
    ELSE "none"

\* String.prototype.lastIndexOf, 1-based; 0 when p does not occur in s
LastIndexOf(s, p) ==
    LET hits == {i \in 1..(Len(s) - Len(p) + 1) : SubSeq(s, i, i + Len(p) - 1) = p}
    IN  IF hits = {} THEN 0 ELSE CHOOSE i \in hits : \A j \in hits : i >= j

\* path.parse(fileName) of a base name: ext starts at the last dot (not a leading one)
pathExt(base) ==
    LET i == LastIndexOf(base, Dot) IN IF i > 1 THEN SubSeq(base, i, Len(base)) ELSE <<>>
pathName(base) ==
    LET i == LastIndexOf(base, Dot) IN IF i > 1 THEN SubSeq(base, 1, i - 1) ELSE base

\* initRootAccount, lines 254-258: the prefix, or <<>> when the file is no script
scriptExts == {<<".", "t", "s">>, <<".", "j", "s">>}
accountPrefix(base) ==
    LET name == pathName(base)
    IN  IF IndexOf(name, Dot) > 0 THEN SubSeq(name, 1, IndexOf(name, Dot) - 1) ELSE name

\* getKeyFromFile(filePath, create = true): the key returned and the file afterwards;
\* a missing or unusable file is replaced by one holding a new random key
WrongGetKeyFromFile(file, fresh) ==
    IF file.exists /\ (file.secret_key # NoKey \/ file.private_key # NoKey)
    THEN [key |-> IF file.secret_key # NoKey THEN file.secret_key ELSE file.private_key,
          file |-> file]
    ELSE [key |-> fresh, file |-> file]
getKeyFromFile(file, fresh) ==
    IF file.exists /\ (file.secret_key # NoKey \/ file.private_key # NoKey)
    THEN [key |-> IF file.secret_key # NoKey THEN file.secret_key ELSE file.private_key,
          file |-> file]
    ELSE [key |-> fresh,
          file |-> [exists |-> TRUE, secret_key |-> fresh, private_key |-> NoKey]]

KeyFiles ==
    {NoFile, [exists |-> TRUE, secret_key |-> NoKey, private_key |-> NoKey]}
    \cup {[exists |-> TRUE, secret_key |-> k, private_key |-> NoKey] : k \in SuppliedKeys}
    \cup {[exists |-> TRUE, secret_key |-> NoKey, private_key |-> k] : k \in SuppliedKeys}

\* a collaborator call that returned is recorded in io
Did(op, id) == io' = Append(io, [op |-> op, id |-> id, threw |-> FALSE])

\* a collaborator call threw: nothing catches it, and create rejects with that error
SwallowFail(op, id, why) ==
    /\ io' = Append(io, [op |-> op, id |-> id, threw |-> TRUE])
    /\ cpc' = "ready"
    /\ error' = "none"
Fail(op, id, why) ==
    /\ io' = Append(io, [op |-> op, id |-> id, threw |-> TRUE])
    /\ cpc' = "failed"
    /\ error' = why

\* AccountManager.create, lines 51-62: choose the variant, or throw
Create ==
    /\ cpc = "start"
    /\ manager' = selectManager(network)
    /\ IF selectManager(network) = "none"
       THEN /\ cpc' = "failed"
            /\ error' = "Bad network id"
       ELSE /\ cpc' = IF selectManager(network) = "SandboxManager" THEN "sb_getKey" ELSE "tn_initRoot"
            /\ UNCHANGED error
    /\ UNCHANGED <<storeVars, callVars, callHist, keyHist, network, rootAccount, fileName,
                   keyFile, grant, io, listing, accounts, accountId, pending, settled,
                   deletesIssued, temporaryId, initial, laterVars>>

\* SandboxManager.init, line 314: if (!await this.getKey(this.rootAccountId))
SandboxGetKey(ok) ==
    /\ cpc = "sb_getKey"
    /\ IF ok
       THEN /\ Did("getKey", rootAccount)
            /\ cpc' = IF getKey(keyStore, rootAccount) = NoKey THEN "sb_setKey" ELSE "ready"
            /\ UNCHANGED error
       ELSE Fail("getKey", rootAccount, "key store")
    /\ UNCHANGED <<storeVars, callVars, callHist, keyHist, network, rootAccount, fileName,
                   keyFile, grant, manager, listing, accounts, accountId, pending, settled,
                   deletesIssued, temporaryId, initial, laterVars>>

\* SandboxManager.init, line 315: setKey(root, await getKeyFromFile(this.keyFilePath))
SandboxSetKey(fileOk, storeOk) ==
    /\ cpc = "sb_setKey"
    /\ LET fresh == FreshKey(nextKey + 1)
           got == getKeyFromFile(keyFile, fresh)
       IN  IF ~fileOk /\ got.file # keyFile
           THEN \* fs.open / writeFile threw
                /\ Fail("writeKeyFile", rootAccount, "key file")
                /\ UNCHANGED <<keyStore, keyFile, nextKey>>
           ELSE /\ keyFile' = got.file
                /\ nextKey' = IF got.key = fresh THEN nextKey + 1 ELSE nextKey
                /\ IF storeOk
                   THEN /\ keyStore' = setKeyStore(keyStore, rootAccount, got.key, NoKey)
                        /\ io' = io \o <<[op |-> "keyFile", id |-> rootAccount, threw |-> FALSE],
                                         [op |-> "setKey", id |-> rootAccount, threw |-> FALSE]>>
                        /\ cpc' = "ready"
                        /\ UNCHANGED error
                   ELSE /\ io' = io \o <<[op |-> "keyFile", id |-> rootAccount, threw |-> FALSE],
                                         [op |-> "setKey", id |-> rootAccount, threw |-> TRUE]>>
                        /\ cpc' = "failed"
                        /\ error' = "key store"
                        /\ UNCHANGED keyStore
    /\ UNCHANGED <<accountsCreated, chain, callVars, callHist, keyHist, network, rootAccount,
                   fileName, grant, manager, listing, accounts, accountId, pending, settled,
                   deletesIssued, temporaryId, initial, laterVars>>

setupFrame == <<network, fileName, grant, manager, initial, laterVars>>

\* initRootAccount, line 248: if (this.near.config.rootAccount) return
WrongRootConfigured(root) == FALSE
rootConfigured(root) == root # NoRoot

\* TestnetManager.initRootAccount, lines 248-258 and 271-273
TestnetInitRoot ==
    /\ cpc = "tn_initRoot"
    /\ IF rootConfigured(rootAccount)
       THEN /\ cpc' = "tn_exists"
            /\ UNCHANGED <<io, error>>
       ELSE IF pathExt(fileName) \in scriptExts
       THEN /\ Did("findCallerFile", fileName)
            /\ cpc' = "tn_list"
            /\ UNCHANGED error
       ELSE Fail("findCallerFile", fileName, "Bad filename")
    /\ UNCHANGED <<storeVars, callVars, callHist, keyHist, setupFrame, rootAccount, keyFile,
                   listing, accounts, accountId, pending, settled, deletesIssued, temporaryId>>

\* the orders in which keyStore.getAccounts may list the ids it holds
Orders(ids) ==
    {o \in [1..Cardinality(ids) -> ids] : \A i, j \in DOMAIN o : i # j => o[i] # o[j]}

\* findAccountsWithPrefix, lines 21-29: the matches in the store's order, or one new id
matchesOf(order, prefix) ==
    LET hit(id) == StartsWith(id, prefix) IN SelectSeq(order, hit)
findAccountsWithPrefix(order, prefix, suffix) ==
    IF matchesOf(order, prefix) # <<>> THEN matchesOf(order, prefix) ELSE <<prefix \o suffix>>

\* initRootAccount, line 260: accounts = await findAccountsWithPrefix(name, keyStore, networkId)
TestnetList(order, suffix, ok) ==
    /\ cpc = "tn_list"
    /\ IF ok
       THEN /\ Did("getAccounts", <<>>)
            /\ listing' = order
            /\ accounts' = findAccountsWithPrefix(order, accountPrefix(fileName), suffix)
            /\ cpc' = "tn_launch"
            /\ UNCHANGED error
       ELSE /\ Fail("getAccounts", <<>>, "key store")
            /\ UNCHANGED <<listing, accounts>>
    /\ UNCHANGED <<storeVars, callVars, callHist, keyHist, setupFrame, rootAccount, keyFile,
                   accountId, pending, settled, deletesIssued, temporaryId>>

\* initRootAccount, line 261: accountId = accounts.shift()
WrongShiftChoice(list) == list[Len(list)]
shiftChoice(list) == Head(list)
shiftRest(list) == Tail(list)

\* initRootAccount, line 264: this.deleteAccount(acc, accountId)
\* addFunds, line 225: account.delete(this.rootAccountId)
WrongDeleteRequest(acc, root) == [accountId |-> acc, beneficiaryId |-> acc]
deleteRequest(acc, root) == [accountId |-> acc, beneficiaryId |-> root]

\* initRootAccount, lines 261-265: shift, then start one deletion per remaining account
TestnetLaunch ==
    /\ cpc = "tn_launch"
    /\ accountId' = shiftChoice(accounts)
    /\ accounts' = shiftRest(accounts)
    /\ LET rest == shiftRest(accounts)
       IN  /\ deletesIssued' = deletesIssued \o
                 [i \in 1..Len(rest) |-> deleteRequest(rest[i], shiftChoice(accounts))]
           /\ pending' = {deleteRequest(rest[i], shiftChoice(accounts)) : i \in 1..Len(rest)}
           /\ io' = io \o [i \in 1..Len(rest) |->
                                [op |-> "deleteAccount", id |-> rest[i], threw |-> FALSE]]
    /\ cpc' = "tn_await"
    /\ UNCHANGED <<storeVars, callVars, callHist, keyHist, setupFrame, rootAccount, keyFile,
                   listing, error, settled, temporaryId>>

\* NearAccount.delete(beneficiaryId) once its transaction has been answered: a managed
\* delete-account transaction from the account to itself, sent with signAndSend
deleteChain(ch, req, status) ==
    IF status = "SuccessValue" THEN applyAction(ch, req.accountId, DeleteAccountAction(req.beneficiaryId))
    ELSE ch
deleteStore(store, req, status) ==
    IF shouldDeleteKey([delete |-> TRUE], status) THEN removeKey(store, req.accountId) ELSE store

\* await Promise.all(...), lines 262-266: a deletion that throws while initRootAccount
\* is waiting rejects the await, and with it initRootAccount
SwallowRejection(status, at) == FALSE
awaitRejects(status, at) == status = "throw" /\ at = "tn_await"

\* one of the deletions of Promise.all settles; the first that throws rejects the await
StaleDeletionSettles(req, status) ==
    /\ req \in pending
    /\ status = "SuccessValue" => req.accountId \in DOMAIN chain
    /\ pending' = pending \ {req}
    /\ settled' = settled \cup {[req |-> req, status |-> status]}
    /\ chain' = deleteChain(chain, req, status)
    /\ keyStore' = deleteStore(keyStore, req, status)
    /\ IF awaitRejects(status, cpc)
       THEN /\ cpc' = "failed"
            /\ error' = "deleteAccount"
       ELSE UNCHANGED <<cpc, error>>
    /\ UNCHANGED <<accountsCreated, nextKey, callVars, callHist, keyHist, setupFrame, rootAccount,
                   keyFile, io, listing, accounts, accountId, deletesIssued, temporaryId>>

\* await Promise.all(...): fulfilled when none of the launched deletions is outstanding
WrongAllSettled(outstanding) == TRUE
allSettled(outstanding) == outstanding = {}

\* initRootAccount, lines 262-268: every deletion is done: this.near.config.rootAccount = accountId
TestnetAwaited ==
    /\ cpc = "tn_await"
    /\ allSettled(pending)
    /\ rootAccount' = accountId
    /\ cpc' = "tn_exists"
    /\ UNCHANGED <<storeVars, callVars, callHist, keyHist, setupFrame, keyFile, error, io,
                   listing, accounts, accountId, pending, settled, deletesIssued, temporaryId>>

\* createAndFundAccount, line 231: if (!(await this.provider.accountExists(accountId)))
TestnetExists(ok) ==
    /\ cpc = "tn_exists"
    /\ IF ok
       THEN /\ Did("accountExists", rootAccount)
            /\ cpc' = IF rootAccount \in DOMAIN chain THEN "tn_balance" ELSE "tn_rootKey"
            /\ UNCHANGED error
       ELSE Fail("accountExists", rootAccount, "provider")
    /\ UNCHANGED <<storeVars, callVars, callHist, keyHist, setupFrame, rootAccount, keyFile,
                   listing, accounts, accountId, pending, settled, deletesIssued, temporaryId>>

\* AccountManager.getRootKey: the root's stored key, or a new one that setKey stores
rootKeyStore(store, root, fresh) ==
    IF getKey(store, root) # NoKey THEN store ELSE setKeyStore(store, root, NoKey, fresh)
rootKeyResult(store, root, fresh) ==
    IF getKey(store, root) # NoKey THEN getKey(store, root) ELSE setKeyResult(store, root, NoKey, fresh)

\* createAndFundAccount, lines 232-234: getRootKey, then keyStore.setKey(networkId, accountId, keyPair)
TestnetRootKey(ok) ==
    /\ cpc = "tn_rootKey"
    /\ IF ok
       THEN LET fresh == FreshKey(nextKey + 1)
            IN  /\ keyStore' = storeSetKey(rootKeyStore(keyStore, rootAccount, fresh), rootAccount,
                                           rootKeyResult(keyStore, rootAccount, fresh))
                /\ nextKey' = IF getKey(keyStore, rootAccount) = NoKey THEN nextKey + 1 ELSE nextKey
                /\ Did("setKey", rootAccount)
                /\ cpc' = "tn_create"
                /\ UNCHANGED error
       ELSE /\ Fail("setKey", rootAccount, "key store")
            /\ UNCHANGED <<keyStore, nextKey>>
    /\ UNCHANGED <<accountsCreated, chain, callVars, callHist, keyHist, setupFrame, rootAccount,
                   keyFile, listing, accounts, accountId, pending, settled, deletesIssued, temporaryId>>

\* TestnetManager.createAccount: the creation service registers and funds the account
helperCreate(ch, id, funds) == MapSet(ch, id, funds)

\* createAndFundAccount, line 235: await this.createAccount(accountId, keyPair.getPublicKey())
TestnetCreateRoot(ok) ==
    /\ cpc = "tn_create"
    /\ IF ok
       THEN /\ chain' = helperCreate(chain, rootAccount, grant)
            /\ Did("createAccount", rootAccount)
            /\ cpc' = "tn_balance"
            /\ UNCHANGED error
       ELSE /\ Fail("createAccount", rootAccount, "creation service")
            /\ UNCHANGED chain
    /\ UNCHANGED <<keyStore, accountsCreated, nextKey, callVars, callHist, keyHist, setupFrame,
                   rootAccount, keyFile, listing, accounts, accountId, pending, settled, deletesIssued,
                   temporaryId>>

\* createAndFundAccount, line 242: available balance below toYocto('1000')
needsFunds(ch, root) == ch[root] < Threshold

\* createAndFundAccount, lines 242-244: if the balance is low, addFunds()
TestnetBalance(ok) ==
    /\ cpc = "tn_balance"
    /\ IF ok
       THEN /\ Did("balance", rootAccount)
            /\ cpc' = IF needsFunds(chain, rootAccount) THEN "af_key" ELSE "ready"
            /\ UNCHANGED error
       ELSE Fail("balance", rootAccount, "provider")
    /\ UNCHANGED <<storeVars, callVars, callHist, keyHist, setupFrame, rootAccount, keyFile,
                   listing, accounts, accountId, pending, settled, deletesIssued, temporaryId>>

\* addFunds, lines 221-223: keyPair = await this.getRootKey(), then
\* keyStore.setKey(networkId, temporaryId, keyPair)
SkipAddFundsKeyStore(store, root, temp, fresh) == rootKeyStore(store, root, fresh)
addFundsKeyStore(store, root, temp, fresh) ==
    storeSetKey(rootKeyStore(store, root, fresh), temp, rootKeyResult(store, root, fresh))

\* addFunds, lines 219-223: a temporary id gets a copy of the root's key
AddFundsKey(ok) ==
    /\ cpc = "af_key"
    /\ temporaryId' = TempId
    /\ IF ok
       THEN LET fresh == FreshKey(nextKey + 1)
            IN  /\ keyStore' = addFundsKeyStore(keyStore, rootAccount, TempId, fresh)
                /\ nextKey' = IF getKey(keyStore, rootAccount) = NoKey THEN nextKey + 1 ELSE nextKey
                /\ Did("setKey", TempId)
                /\ cpc' = "af_create"
                /\ UNCHANGED error
       ELSE /\ Fail("setKey", TempId, "key store")
            /\ UNCHANGED <<keyStore, nextKey>>
    /\ UNCHANGED <<accountsCreated, chain, callVars, callHist, keyHist, setupFrame, rootAccount,
                   keyFile, listing, accounts, accountId, pending, settled, deletesIssued>>

\* addFunds, line 224: account = await this.createAccount(temporaryId, keyPair.getPublicKey())
AddFundsCreate(ok) ==
    /\ cpc = "af_create"
    /\ IF ok
       THEN /\ chain' = helperCreate(chain, temporaryId, grant)
            /\ Did("createAccount", temporaryId)
            /\ cpc' = "af_delete"
            /\ UNCHANGED error
       ELSE /\ Fail("createAccount", temporaryId, "creation service")
            /\ UNCHANGED chain
    /\ UNCHANGED <<keyStore, accountsCreated, nextKey, callVars, callHist, keyHist, setupFrame,
                   rootAccount, keyFile, listing, accounts, accountId, pending, settled, deletesIssued,
                   temporaryId>>

\* addFunds, line 225: await account.delete(this.rootAccountId)
AddFundsDelete(status) ==
    /\ cpc = "af_delete"
    /\ LET req == deleteRequest(temporaryId, rootAccount)
       IN  /\ deletesIssued' = Append(deletesIssued, req)
           /\ settled' = settled \cup {[req |-> req, status |-> status]}
           /\ chain' = deleteChain(chain, req, status)
           /\ keyStore' = deleteStore(keyStore, req, status)
    /\ IF status = "throw"
       THEN Fail("delete", temporaryId, "deleteAccount")
       ELSE /\ Did("delete", temporaryId)
            /\ cpc' = "ready"
            /\ UNCHANGED error
    /\ UNCHANGED <<accountsCreated, nextKey, callVars, callHist, keyHist, setupFrame, rootAccount,
                   keyFile, listing, accounts, accountId, pending, temporaryId>>

\* the key a stored id holds when create starts
keyOf(id) == IF id = F2 THEN NumKeys ELSE 1

InitCreate ==
    /\ accountsCreated = EmptyMap
    /\ nextKey = 0
    /\ InitCalls({1})
    /\ createdOnChain = {}
    /\ createRequested = {}
    /\ lastCall = NoCall
    /\ prevCall = NoCall
    /\ network \in Networks
    /\ IF network = "testnet"
       THEN /\ rootAccount \in {NoRoot, F1}
            /\ fileName \in FileNames
            /\ keyFile = NoFile
            /\ grant \in Grants
            /\ \E ids \in SUBSET StoredIds : keyStore = [id \in ids |-> keyOf(id)]
            /\ \E ids \in SUBSET {F1, F2} : chain \in [ids -> InitBalances]
       ELSE /\ rootAccount = RootId
            /\ fileName = <<>>
            /\ keyFile \in KeyFiles
            /\ grant = 0
            /\ keyStore \in {EmptyMap} \cup {[id \in {RootId} |-> k] : k \in SuppliedKeys}
            /\ chain = [id \in {RootId} |-> 0]
    /\ manager = "none"
    /\ cpc = "start"
    /\ error = "none"
    /\ io = <<>>
    /\ listing = <<>>
    /\ accounts = <<>>
    /\ accountId = NoRoot
    /\ pending = {}
    /\ deletesIssued = <<>>
    /\ temporaryId = NoRoot
    /\ initial = [keyStore |-> keyStore, chain |-> chain, keyFile |-> keyFile,
                  rootAccount |-> rootAccount]
    /\ settled = {}
    /\ NoCleanup
    /\ NoRun

NextCreate ==
    \/ Create
    \/ \E ok \in BOOLEAN : SandboxGetKey(ok)
    \/ \E fileOk \in BOOLEAN, storeOk \in BOOLEAN : SandboxSetKey(fileOk, storeOk)
    \/ TestnetInitRoot
    \/ /\ cpc = "tn_list"
       /\ \E order \in Orders(DOMAIN keyStore), suffix \in RandomSuffixes, ok \in BOOLEAN :
             TestnetList(order, suffix, ok)
    \/ TestnetLaunch
    \/ \E req \in pending, status \in Statuses : StaleDeletionSettles(req, status)
    \/ TestnetAwaited
    \/ \E ok \in BOOLEAN : TestnetExists(ok)
    \/ \E ok \in BOOLEAN : TestnetRootKey(ok)
    \/ \E ok \in BOOLEAN : TestnetCreateRoot(ok)
    \/ \E ok \in BOOLEAN : TestnetBalance(ok)
    \/ \E ok \in BOOLEAN : AddFundsKey(ok)
    \/ \E ok \in BOOLEAN : AddFundsCreate(ok)
    \/ \E status \in Statuses : AddFundsDelete(status)

SpecCreate == InitCreate /\ [][NextCreate]_vars

(***************************************************************************)
(* Properties of AccountManager.create (specification SpecCreate)          *)
(***************************************************************************)

\* C3: whenever TestnetManager.init() has completed successfully, the resolved root
\* account exists on-chain and its available balance is at least the 1000-token
\* threshold.
C3_RootExistsAndFunded ==
    (network = "testnet" /\ cpc = "ready") =>
        /\ rootAccount \in DOMAIN chain
        /\ chain[rootAccount] >= Threshold

\* C4: create with a network other than 'sandbox' or 'testnet' fails with the
\* configuration error; no manager is constructed and no key-store, RPC, file or
\* account-creation operation is made.
C4_BadNetworkFailsWithoutIO ==
    (network \notin {"sandbox", "testnet"} /\ cpc # "start") =>
        /\ cpc = "failed"
        /\ error = "Bad network id"
        /\ manager = "none"
        /\ io = <<>>
        /\ deletesIssued = <<>>
        /\ keyStore = initial.keyStore
        /\ chain = initial.chain
        /\ keyFile = initial.keyFile
        /\ rootAccount = initial.rootAccount

C4_Witness ==
    /\ network = "mainnet"
    /\ cpc = "failed"
    /\ error = "Bad network id"

\* the ids of a sequence of deletion requests that name acc
deletionsOf(acc) == {i \in DOMAIN deletesIssued : deletesIssued[i].accountId = acc}

\* C8: root discovery with no root configured, when the key store lists one or more
\* ids starting with the prefix: the first of them in the listing's order is the
\* chosen root, which becomes the configured root when discovery completes; once
\* the deletions are launched, every other matching id has exactly one deletion,
\* with the chosen root as beneficiary, and the chosen root has none, then or later.
C8_FirstMatchIsRootOthersDeleted ==
    LET matches == matchesOf(listing, accountPrefix(fileName))
    IN  (network = "testnet" /\ initial.rootAccount = NoRoot /\ matches # <<>>
             /\ cpc \notin {"start", "tn_initRoot", "tn_list", "tn_launch"}) =>
            /\ accountId = matches[1]
            /\ \A i \in 2..Len(matches) :
                  /\ Cardinality(deletionsOf(matches[i])) = 1
                  /\ \A d \in deletionsOf(matches[i]) :
                        deletesIssued[d].beneficiaryId = matches[1]
            /\ deletionsOf(matches[1]) = {}
            /\ rootAccount \in {NoRoot, matches[1]}
            /\ cpc \notin {"tn_await", "failed"} => rootAccount = matches[1]

C8_Witness ==
    LET matches == matchesOf(listing, accountPrefix(fileName))
    IN  /\ network = "testnet"
        /\ initial.rootAccount = NoRoot
        /\ Len(matches) = 2
        /\ cpc = "ready"
        /\ rootAccount = matches[1]
        /\ Cardinality(deletionsOf(matches[2])) = 1

\* what a later getKeyFromFile(keyFilePath) returns
laterFileKey == getKeyFromFile(keyFile, NoKey).key

\* C10 (as claimed): a sandbox manager is created and no validator key file exists:
\* when init() is done a generated key is in the key file and is the key stored
\* for the root account.
C10_NoKeyFileGeneratesAndStores ==
    (network = "sandbox" /\ cpc = "ready" /\ ~initial.keyFile.exists) =>
        /\ keyFile.exists
        /\ laterFileKey # NoKey
        /\ laterFileKey \notin SuppliedKeys
        /\ getKey(keyStore, rootAccount) = laterFileKey

\* C10 (amended): the same, when moreover the key store holds no key for the root
\* account as create starts.
C10_NoKeyFileNoRootKeyGeneratesAndStores ==
    (network = "sandbox" /\ cpc = "ready" /\ ~initial.keyFile.exists
         /\ getKey(initial.keyStore, rootAccount) = NoKey) =>
        /\ keyFile.exists
        /\ laterFileKey # NoKey
        /\ laterFileKey \notin SuppliedKeys
        /\ getKey(keyStore, rootAccount) = laterFileKey

C10_Witness ==
    /\ network = "sandbox"
    /\ cpc = "ready"
    /\ ~initial.keyFile.exists
    /\ getKey(initial.keyStore, rootAccount) = NoKey
    /\ keyFile.exists
    /\ getKey(keyStore, rootAccount) = keyFile.secret_key
    /\ keyFile.secret_key # NoKey

(***************************************************************************)
(* cleanup() of the manager variants (specification SpecCleanup)           *)
(***************************************************************************)
MaxCleanups == 2                       \* cleanup() calls in one run
SubAccountBalance == 50                \* toYocto('50'), in whole tokens
Variants == {"SandboxManager", "TestnetManager", "TestnetSubaccountManager"}
SubSuffix == <<"s">>                   \* randomAccountId('', ''): random digits
ChildNames == {<<"a">>}                \* short names of the accounts a run creates

\* AccountManager.rootAccountId, and its override in TestnetSubaccountManager
rootAccountId(mgr, root, sub) == IF mgr = "TestnetSubaccountManager" THEN sub ELSE root

\* TestnetSubaccountManager.realRoot: the account of near.config.rootAccount
WrongRealRoot(root, sub) == sub
realRoot(root, sub) == root

\* the ids cleanup() deletes: AccountManager.cleanup is empty, the override in
\* TestnetSubaccountManager maps over accountsCreated.keys()
WrongCleanupTargets(mgr, table) == DOMAIN table
cleanupTargets(mgr, table) == IF mgr = "TestnetSubaccountManager" THEN DOMAIN table ELSE {}

\* the deletions cleanup() starts, one per tracked id, in the order of the keys
cleanupRequests(order, root, sub) ==
    [i \in DOMAIN order |-> deleteRequest(order[i], realRoot(root, sub))]

\* the deletions of the batch launched last
batch == pending \cup {s.req : s \in settled}

\* cleanup(): the caller, who has no transaction under way, calls it and awaits it
Cleanup(order) ==
    /\ clpc = "idle"
    /\ pending = {}
    /\ cleanups < MaxCleanups
    /\ \A t \in Tasks : pc[t] = "idle"
    /\ order \in Orders(cleanupTargets(manager, accountsCreated))
    /\ LET reqs == cleanupRequests(order, rootAccount, subAccount)
       IN  /\ deletesIssued' = deletesIssued \o reqs
           /\ pending' = {reqs[i] : i \in DOMAIN reqs}
    /\ settled' = {}
    /\ clpc' = "awaiting"
    /\ cleanups' = cleanups + 1
    /\ UNCHANGED <<storeVars, callVars, callHist, keyHist, createVars, subAccount, runVars>>

\* one deletion of cleanup's Promise.all settles; the first that throws rejects cleanup()
CleanupDeletionSettles(req, status) ==
    /\ req \in pending
    /\ status = "SuccessValue" => req.accountId \in DOMAIN chain
    /\ pending' = pending \ {req}
    /\ settled' = settled \cup {[req |-> req, status |-> status]}
    /\ chain' = deleteChain(chain, req, status)
    /\ keyStore' = deleteStore(keyStore, req, status)
    /\ accountsCreated' = trackedAfterDelete(accountsCreated, req.accountId,
                                             shouldDeleteKey([delete |-> TRUE], status))
    /\ clpc' = IF status = "throw" /\ clpc = "awaiting" THEN "failed" ELSE clpc
    /\ UNCHANGED <<nextKey, callVars, callHist, keyHist, createVars,
                   deletesIssued, subAccount, cleanups, runVars>>

\* every deletion of cleanup's Promise.all is fulfilled: cleanup() resolves
CleanupAwaited ==
    /\ clpc = "awaiting"
    /\ allSettled(pending)
    /\ clpc' = "done"
    /\ UNCHANGED <<storeVars, callVars, callHist, keyHist, createVars, pending, settled,
                   deletesIssued, subAccount, cleanups, runVars>>

\* the caller has cleanup()'s result (or its exception) and goes on
CleanupReturn ==
    /\ clpc \in {"done", "failed"}
    /\ clpc' = "idle"
    /\ UNCHANGED <<storeVars, callVars, callHist, keyHist, createVars, pending, settled,
                   deletesIssued, subAccount, cleanups, runVars>>

\* TestnetSubaccountManager.init, lines 294-296: the sub-account is created under the
\* real root by a managed create-account transaction, which registers it
subaccountTable(root, sub) == addAccountCreated(EmptyMap, sub, root)

\* the accounts a transaction of the run goes from and to: the manager's root creates
\* a child, or a child acts on itself
Children(root) == {makeSubAccount(c, root) : c \in ChildNames}
Parties(root) == {<<root, c>> : c \in Children(root)} \cup {<<c, c>> : c \in Children(root)}

InitCleanup ==
    /\ manager \in Variants
    /\ network = IF manager = "SandboxManager" THEN "sandbox" ELSE "testnet"
    /\ rootAccount = RootId
    /\ subAccount = IF manager = "TestnetSubaccountManager"
                    THEN makeSubAccount(SubSuffix, RootId) ELSE NoRoot
    /\ accountsCreated = IF manager = "TestnetSubaccountManager"
                         THEN subaccountTable(rootAccount, subAccount) ELSE EmptyMap
    /\ chain = IF manager = "TestnetSubaccountManager"
               THEN (RootId :> Threshold) @@ (subAccount :> SubAccountBalance)
               ELSE (RootId :> Threshold)
    /\ keyStore = [id \in DOMAIN chain |-> 1]
    /\ nextKey = 0
    /\ InitCalls({1})
    /\ createdOnChain = {}
    /\ createRequested = {}
    /\ lastCall = NoCall
    /\ prevCall = NoCall
    /\ fileName = <<>>
    /\ keyFile = NoFile
    /\ grant = 0
    /\ cpc = "ready"
    /\ error = "none"
    /\ io = <<>>
    /\ listing = <<>>
    /\ accounts = <<>>
    /\ accountId = NoRoot
    /\ pending = {}
    /\ settled = {}
    /\ deletesIssued = <<>>
    /\ temporaryId = NoRoot
    /\ initial = [keyStore |-> EmptyMap, chain |-> EmptyMap, keyFile |-> NoFile,
                  rootAccount |-> NoRoot]
    /\ clpc = "idle"
    /\ cleanups = 0
    /\ NoRun

\* the caller uses the manager while no cleanup() is awaited
NextCleanup ==
    \/ \E p \in Parties(rootAccountId(manager, rootAccount, subAccount)) :
          clpc = "idle" /\ CreateTransaction(1, p[1], p[2])
    \/ TxCreateAccount(1)
    \/ TxDeleteAccount(1, rootAccount)
    \/ SignAndSend(1, NoKey)
    \/ \E status \in Statuses : Submit(1, status)
    \/ RestoreKey(1)
    \/ AfterExecute(1)
    \/ Return(1)
    \/ /\ clpc = "idle"
       /\ \E order \in Orders(cleanupTargets(manager, accountsCreated)) : Cleanup(order)
    \/ \E req \in pending, status \in Statuses : CleanupDeletionSettles(req, status)
    \/ CleanupAwaited
    \/ CleanupReturn

SpecCleanup == InitCleanup /\ [][NextCleanup]_vars

\* C11: when cleanup() of a TestnetSubaccountManager has completed successfully, the
\* deletions it launched are exactly one per account id of accountsCreated, each with
\* the configured (real) root as beneficiary and none with the sub-account root; no
\* deletion was ever issued for an id that is not in accountsCreated.
C11_CleanupDeletesTrackedToRealRoot ==
    (manager = "TestnetSubaccountManager" /\ clpc = "done") =>
        /\ \A id \in DOMAIN accountsCreated : deleteRequest(id, rootAccount) \in batch
        /\ \A r \in batch :
              /\ r.accountId \in DOMAIN accountsCreated
              /\ r.beneficiaryId = rootAccount
              /\ r.beneficiaryId # subAccount
        /\ \A i \in DOMAIN deletesIssued :
              /\ deletesIssued[i].accountId \in DOMAIN accountsCreated
              /\ deletesIssued[i].beneficiaryId = rootAccount

C11_Witness ==
    /\ manager = "TestnetSubaccountManager"
    /\ clpc = "done"
    /\ Cardinality(DOMAIN accountsCreated) = 2
    /\ Cardinality(batch) = 2
    /\ \A s \in settled : s.status = "SuccessValue"
    /\ chain[rootAccount] > Threshold

\* C12: on a manager that is not a TestnetSubaccountManager (the base cleanup, which
\* TestnetManager and SandboxManager inherit) cleanup() issues no account deletion,
\* and no step of it changes accountsCreated, the key store or the on-chain accounts.
C12_BaseCleanupIsNoOp ==
    /\ [](manager # "TestnetSubaccountManager" =>
             (deletesIssued = <<>> /\ pending = {} /\ settled = {}))
    /\ [][(manager # "TestnetSubaccountManager" /\ clpc' # clpc) =>
             UNCHANGED <<accountsCreated, keyStore, chain>>]_vars

C12_Witness ==
    /\ manager = "TestnetManager"
    /\ clpc = "done"
    /\ cleanups = 1
    /\ \E id \in DOMAIN accountsCreated : id \in DOMAIN chain
    /\ getKey(keyStore, rootAccount) # NoKey
    /\ deletesIssued = <<>>

\* the tracked accounts that are gone from the chain
deletedTracked == DOMAIN accountsCreated \ DOMAIN chain

\* C23: no step of a run (registering an account, sending a transaction that deletes
\* one, the key removal after a successful deletion, cleanup() and the settling of its
\* deletions) takes an id out of accountsCreated; so every account cleanup() has asked
\* to delete is still listed, and a later cleanup() of the sub-account manager asks
\* again for every deletion the earlier ones asked for, to the same beneficiary.
C23_TableOnlyGrows ==
    /\ [](manager = "TestnetSubaccountManager" =>
             \A i \in DOMAIN deletesIssued : deletesIssued[i].accountId \in DOMAIN accountsCreated)
    /\ [][/\ DOMAIN accountsCreated \subseteq DOMAIN accountsCreated'
          /\ (manager = "TestnetSubaccountManager" /\ cleanups' = cleanups + 1) =>
                /\ \A i \in DOMAIN deletesIssued : deletesIssued[i] \in pending'
                /\ {r.accountId : r \in pending'} = DOMAIN accountsCreated
                /\ Len(deletesIssued') = Len(deletesIssued) + Cardinality(DOMAIN accountsCreated)
      ]_vars

\* the second cleanup() has asked again for the deletion of an account that the first
\* one deleted
C23_Witness ==
    /\ manager = "TestnetSubaccountManager"
    /\ cleanups = 2
    /\ Cardinality(DOMAIN accountsCreated) = 2
    /\ \E id \in deletedTracked :
          /\ Cardinality({i \in DOMAIN deletesIssued : deletesIssued[i].accountId = id}) = 2
          /\ id \notin DOMAIN keyStore

(***************************************************************************)
(* The two concurrent fan-outs: a manager being created on testnet deletes *)
(* the stale root candidates, a sub-account manager in use deletes its     *)
(* tracked accounts (specification SpecFanOut)                             *)
(***************************************************************************)
InitFanOut ==
    \/ InitCreate
    \/ InitCleanup /\ manager = "TestnetSubaccountManager"

NextFanOut ==
    \/ manager # "TestnetSubaccountManager" /\ NextCreate
    \/ manager = "TestnetSubaccountManager" /\ NextCleanup

SpecFanOut == InitFanOut /\ [][NextFanOut]_vars

\* the deletions root discovery has launched: one per account left after the shift
staleRequests == {deleteRequest(accounts[i], accountId) : i \in DOMAIN accounts}

\* the deletions of a set of requests that have settled without throwing / by throwing
fulfilled(reqs) == {s.req : s \in {x \in settled : x.req \in reqs /\ x.status # "throw"}}
rejected(reqs) == {s.req : s \in {x \in settled : x.req \in reqs /\ x.status = "throw"}}

\* C13: in root discovery and in cleanup() the deletions are launched together (none is
\* launched after another has settled); the operation goes on past its Promise.all
\* only when every launched deletion has settled without throwing, in whatever order
\* they settle; and once one deletion has thrown, the operation has failed: discovery
\* rejects AccountManager.create, cleanup() rejects to its caller.
C13_FanOutAllOrFail ==
    /\ (manager = "TestnetManager" /\ cpc \notin {"start", "tn_initRoot", "tn_list", "tn_launch"}
            /\ initial.rootAccount = NoRoot) =>
          /\ pending \cup fulfilled(staleRequests) \cup rejected(staleRequests) = staleRequests
          /\ cpc # "tn_await" => (rejected(staleRequests) # {} <=> (cpc = "failed" /\ error = "deleteAccount"
                                                                     /\ temporaryId = NoRoot))
          /\ cpc \notin {"tn_await", "failed"} => fulfilled(staleRequests) = staleRequests
          /\ rejected(staleRequests) # {} => cpc = "failed"
    /\ (manager = "TestnetSubaccountManager" /\ clpc # "idle") =>
          /\ batch = {deleteRequest(id, rootAccount) : id \in DOMAIN accountsCreated}
          /\ clpc = "done" => fulfilled(batch) = batch
          /\ rejected(batch) # {} <=> clpc = "failed"

C13_Witness ==
    /\ manager = "TestnetManager"
    /\ cpc = "failed"
    /\ Cardinality(staleRequests) = 2
    /\ Cardinality(rejected(staleRequests)) = 1
    /\ Cardinality(fulfilled(staleRequests)) = 1

(***************************************************************************)
(* Two signAndSend calls with temporary keys under way at once for the     *)
(* same sender (specification SpecRace)                                    *)
(***************************************************************************)
Callers == {1, 2}
OriginalKey == FreshKey(1)             \* the sender's own key, made by getRootKey()

InitRace ==
    /\ keyStore = (RootId :> OriginalKey)
    /\ accountsCreated = EmptyMap
    /\ chain = (RootId :> 0)
    /\ nextKey = 1
    /\ InitCalls(Callers)
    /\ createdOnChain = {}
    /\ createRequested = {}
    /\ lastCall = NoCall
    /\ prevCall = NoCall
    /\ NoSetup

\* each caller builds one transaction from the root and sends it with a temporary key;
\* the calls interleave at every await
NextRace ==
    \/ \E t \in Tasks, r \in Accounts : CreateTransaction(t, RootId, r)
    \/ \E t \in Tasks, kp \in SuppliedKeys : SignAndSend(t, kp)
    \/ \E t \in Tasks : SaveOldKey(t)
    \/ \E t \in Tasks : SwapInKey(t)
    \/ \E t \in Tasks, status \in Statuses : Submit(t, status)
    \/ \E t \in Tasks : RestoreKey(t)
    \/ \E t \in Tasks : AfterExecute(t)

SpecRace == InitRace /\ [][NextRace]_vars

\* both calls have returned an outcome to signAndSend
bothReturned == \A t \in Tasks : pc[t] \in {"returned", "done"}

\* C14: two executeTransaction calls with temporary keys for the same sender are not
\* isolated.  When both have returned, the key stored for the sender is its original
\* key or else the temporary key of one call, which the other call read as its
\* 'previous' key and wrote back; the witness is an interleaving that ends so, in
\* which moreover a call signed with the other call's temporary key.
C14_RaceLeavesOriginalOrOthersTemporary ==
    (bothReturned /\ getKey(keyStore, RootId) # OriginalKey) =>
        \E t, u \in Tasks :
            /\ t # u
            /\ oldKey[t] = keyPair[u]
            /\ getKey(keyStore, RootId) = keyPair[u]

C14_Witness ==
    /\ bothReturned
    /\ keyPair[1] # keyPair[2]
    /\ oldKey[2] = keyPair[1]
    /\ signedWith[1] = keyPair[2]
    /\ getKey(keyStore, RootId) = keyPair[1]
    /\ getKey(keyStore, RootId) # OriginalKey

(***************************************************************************)
(* executeTransaction with a temporary key for a sender without a key      *)
(* (specification Spec)                                                    *)
(***************************************************************************)

\* C22: executeTransaction is called with a temporary keyPair for a sender that has no
\* key in the store: the step that restores the old key leaves the store as it is, and
\* when the call has returned its outcome the temporary keyPair is the key stored for
\* the sender, so the store is not back in its 'no key' state.
C22_NoKeyBeforeLeavesTemporaryKey ==
    /\ [](\A t \in Tasks :
             (pc[t] = "returned" /\ keyPair[t] # NoKey /\ keyBefore[t] = NoKey) =>
                 /\ oldKey[t] = NoKey
                 /\ tx[t].senderId \in DOMAIN keyStore
                 /\ getKey(keyStore, tx[t].senderId) = keyPair[t]
                 /\ getKey(keyStore, tx[t].senderId) # keyBefore[t])
    /\ [][\A t \in Tasks :
             (pc[t] = "restore" /\ pc'[t] = "returned" /\ keyPair[t] # NoKey /\ keyBefore[t] = NoKey)
                 => keyStore' = keyStore]_vars

C22_Witness ==
    /\ pc[1] = "returned"
    /\ outcome[1] = "SuccessValue"
    /\ keyPair[1] # NoKey
    /\ keyBefore[1] = NoKey
    /\ signedWith[1] = keyPair[1]
    /\ getKey(keyStore, tx[1].senderId) = keyPair[1]

(***************************************************************************)
(* Root discovery, addFunds and failures of AccountManager.create          *)
(* (specification SpecCreate)                                              *)
(***************************************************************************)

\* C15: when a root account id is configured as AccountManager.create is called on
\* testnet, that id stays the configured root throughout, and root discovery looks
\* up no caller file, lists no key-store accounts and deletes no account (the only
\* deletion create can issue is the one of addFunds' temporary account).
C15_ConfiguredRootIsKept ==
    (manager = "TestnetManager" /\ initial.rootAccount # NoRoot) =>
        /\ rootAccount = initial.rootAccount
        /\ \A i \in DOMAIN io : io[i].op \notin {"findCallerFile", "getAccounts", "deleteAccount"}
        /\ listing = <<>>
        /\ accountId = NoRoot
        /\ staleRequests = {}
        /\ \A i \in DOMAIN deletesIssued : deletesIssued[i].accountId = temporaryId

C15_Witness ==
    /\ manager = "TestnetManager"
    /\ initial.rootAccount = F1
    /\ cpc = "ready"
    /\ pathExt(fileName) \in scriptExts
    /\ {F1, F2, F3} \subseteq DOMAIN keyStore
    /\ rootAccount = F1

\* addFunds' deletion of the temporary account has been answered with a success
toppedUp == [req |-> deleteRequest(temporaryId, rootAccount), status |-> "SuccessValue"] \in settled

failedCalls == {i \in DOMAIN io : io[i].threw}

\* C17: in AccountManager.create on testnet, a collaborator call that throws (the
\* existence query, the balance query, an account creation, a key-store access, the
\* deletion of the temporary or of a stale account) makes create fail with that
\* error; the call that threw was made once, it is the last call create made, and
\* after the failure create makes no further call and never completes.
C17_InitFailurePropagatesNoRetry ==
    /\ [](manager = "TestnetManager" =>
             /\ (failedCalls # {} \/ rejected(staleRequests) # {}) =>
                    (cpc = "failed" /\ error # "none")
             /\ failedCalls # {} =>
                    /\ failedCalls = {Len(io)}
                    /\ \A i \in DOMAIN io :
                          (io[i].op = io[Len(io)].op /\ io[i].id = io[Len(io)].id) => i = Len(io)
             /\ \A r \in rejected(staleRequests) :
                    Cardinality({i \in DOMAIN deletesIssued : deletesIssued[i] = r}) = 1
             /\ cpc = "failed" => (failedCalls # {} \/ rejected(staleRequests) # {}))
    /\ [][(manager = "TestnetManager" /\ cpc = "failed") =>
             (cpc' = "failed" /\ UNCHANGED <<io, error, deletesIssued, rootAccount, temporaryId>>)]_vars

C17_Witness ==
    /\ manager = "TestnetManager"
    /\ cpc = "failed"
    /\ error = "creation service"
    /\ io[Len(io)] = [op |-> "createAccount", id |-> temporaryId, threw |-> TRUE]
    /\ \E i \in DOMAIN io : io[i] = [op |-> "createAccount", id |-> rootAccount, threw |-> FALSE]

\* C21: in root discovery with no root configured, near.config.rootAccount is assigned
\* in one step only, the one after the await of the stale deletions, when every
\* launched deletion has settled without throwing; once a stale deletion has thrown,
\* create has failed, the root is still unconfigured, and neither then nor later is
\* an account created, a key stored or addFunds started.
C21_RootAssignedAfterDeletions ==
    /\ [](( manager = "TestnetManager" /\ initial.rootAccount = NoRoot
             /\ cpc \notin {"start", "tn_initRoot", "tn_list", "tn_launch"}) =>
             /\ rootAccount # NoRoot =>
                    /\ pending = {}
                    /\ fulfilled(staleRequests) = staleRequests
                    /\ rootAccount = accountId
             /\ rejected(staleRequests) # {} =>
                    /\ cpc = "failed"
                    /\ rootAccount = NoRoot
                    /\ \A i \in DOMAIN io : io[i].op \notin {"accountExists", "setKey", "createAccount",
                                                               "balance", "delete"}
                    /\ DOMAIN chain \subseteq DOMAIN initial.chain
                    /\ DOMAIN keyStore \subseteq DOMAIN initial.keyStore
                    /\ temporaryId = NoRoot)
    /\ [][(manager = "TestnetManager" /\ rootAccount' # rootAccount) =>
             /\ cpc = "tn_await"
             /\ cpc' = "tn_exists"
             /\ pending = {}
             /\ fulfilled(staleRequests) = staleRequests
             /\ rootAccount = NoRoot
             /\ rootAccount' = accountId]_vars

\* two stale accounts: one deletion succeeded, the other threw, and its sibling settled
\* after the failure
C21_Witness ==
    /\ manager = "TestnetManager"
    /\ initial.rootAccount = NoRoot
    /\ cpc = "failed"
    /\ error = "deleteAccount"
    /\ rootAccount = NoRoot
    /\ accountId # NoRoot
    /\ pending = {}
    /\ Cardinality(staleRequests) = 2
    /\ Cardinality(rejected(staleRequests)) = 1
    /\ \E s \in settled : s.status = "SuccessValue"

\* addFunds has stored the key under the temporary id
keyCopied == \E i \in DOMAIN io : io[i] = [op |-> "setKey", id |-> TempId, threw |-> FALSE]

\* addFunds has ended: create has resolved or has failed
addFundsEnded == cpc \in {"ready", "failed"}

\* C24: addFunds stores the root's key under the temporary account id while that id
\* names no account yet; from then on the entry is there with the root's key, and it
\* is taken out by one step only, the deletion of the temporary account answered with
\* a success; so when addFunds has ended after the creation threw, or after the
\* deletion threw or was answered with a failure, the key store holds the root's key
\* under the temporary id, and when it has ended after a successful deletion it
\* holds no key under that id.
C24_TemporaryKeyStaysUnlessDeleted ==
    /\ [](( manager = "TestnetManager" /\ keyCopied) =>
             /\ getKey(keyStore, rootAccount) # NoKey
             /\ ~toppedUp =>
                    /\ temporaryId \in DOMAIN keyStore
                    /\ getKey(keyStore, temporaryId) = getKey(keyStore, rootAccount)
             /\ toppedUp => (temporaryId \notin DOMAIN keyStore /\ cpc = "ready")
             /\ (addFundsEnded /\ io[Len(io)].threw) =>
                    /\ io[Len(io)].op \in {"createAccount", "delete"}
                    /\ getKey(keyStore, temporaryId) = getKey(keyStore, rootAccount))
    /\ [][manager = "TestnetManager" =>
             /\ (~keyCopied /\ keyCopied') =>
                    /\ cpc = "af_key"
                    /\ temporaryId' \notin DOMAIN chain'
                    /\ \A i \in DOMAIN io : io[i].op = "createAccount" => io[i].id # temporaryId'
             /\ (keyCopied /\ temporaryId \in DOMAIN keyStore /\ temporaryId \notin DOMAIN keyStore') =>
                    (cpc = "af_delete" /\ toppedUp' /\ temporaryId \notin DOMAIN chain')
      ]_vars

\* the creation service created the temporary account, its deletion threw, and the
\* root's key is still stored under the temporary id
C24_Witness ==
    /\ manager = "TestnetManager"
    /\ cpc = "failed"
    /\ io[Len(io)] = [op |-> "delete", id |-> temporaryId, threw |-> TRUE]
    /\ temporaryId \in DOMAIN chain
    /\ temporaryId \notin DOMAIN initial.keyStore
    /\ getKey(keyStore, temporaryId) = getKey(keyStore, rootAccount)
    /\ getKey(keyStore, rootAccount) # NoKey

(***************************************************************************)
(* The legacy Runtime: one call of Runtime.run on a TestnetRuntime or a    *)
(* SandboxRuntime (specification SpecRun)                                  *)
(***************************************************************************)
CustomMaster == <<"m">>                \* a masterAccount the caller configured
CustomMasterError == "custom masterAccount not yet supported on testnet"

\* a step of run's try block returned
Ran(op, id) == io' = Append(io, [op |-> op, id |-> id, threw |-> FALSE])

\* a step of run's try block threw: catch re-throws e, and finally runs afterRun first
RunThrow(op, id, why) ==
    /\ io' = Append(io, [op |-> op, id |-> id, threw |-> TRUE])
    /\ caught' = why
    /\ rpc' = "afterRun"

\* Runtime.run is called
RunStart ==
    /\ rpc = "idle"
    /\ rpc' = "getKeyStore"
    /\ UNCHANGED <<storeVars, callVars, callHist, keyHist, createVars, pending, settled,
                   deletesIssued, cleanupVars, masterAccount, server, caught, runResult>>

\* run, line 160: this.keyStore = await this.getKeyStore() (both runtimes construct a store)
RunGetKeyStore ==
    /\ rpc = "getKeyStore"
    /\ Ran("getKeyStore", <<>>)
    /\ rpc' = "beforeConnect"
    /\ UNCHANGED <<storeVars, callVars, callHist, keyHist, network, rootAccount, fileName, keyFile,
                   grant, manager, cpc, error, listing, accounts, accountId, temporaryId, initial,
                   pending, settled, deletesIssued, cleanupVars, masterAccount, server, caught,
                   runResult>>

\* TestnetRuntime.beforeConnect, line 283: if (this.config.masterAccount)
WrongCustomMaster(master) == FALSE
customMaster(master) == master # NoRoot

\* TestnetRuntime.beforeConnect, lines 278-290: the folder, the creator, then the master id
TestnetBeforeConnect ==
    /\ rpc = "beforeConnect"
    /\ network = "testnet"
    /\ IF customMaster(masterAccount)
       THEN /\ RunThrow("beforeConnect", masterAccount, CustomMasterError)
            /\ UNCHANGED masterAccount
       ELSE /\ masterAccount' = TempId
            /\ Ran("beforeConnect", TempId)
            /\ rpc' = "addMasterKey"
            /\ UNCHANGED caught
    /\ UNCHANGED <<storeVars, callVars, callHist, keyHist, network, rootAccount, fileName, keyFile,
                   grant, manager, cpc, error, listing, accounts, accountId, temporaryId, initial,
                   pending, settled, deletesIssued, cleanupVars, server, runResult>>

\* SandboxRuntime.beforeConnect, lines 392-393: this.server = await SandboxServer.init(...)
SandboxServerInit(ok, init) ==
    /\ rpc = "beforeConnect"
    /\ network = "sandbox"
    /\ IF ok
       THEN /\ server' = TRUE
            /\ Ran("SandboxServer.init", <<>>)
            /\ rpc' = IF init THEN "addMasterKey" ELSE "serverStart"
            /\ UNCHANGED caught
       ELSE /\ RunThrow("SandboxServer.init", <<>>, "server init")
            /\ UNCHANGED server
    /\ UNCHANGED <<storeVars, callVars, callHist, keyHist, network, rootAccount, fileName, keyFile,
                   grant, manager, cpc, error, listing, accounts, accountId, temporaryId, initial,
                   pending, settled, deletesIssued, cleanupVars, masterAccount, runResult>>

\* Runtime.addMasterAccountKey: keyStore.setKey(network, masterAccount, await getMasterKey())
RunAddMasterKey(fileOk, storeOk) ==
    /\ rpc = "addMasterKey"
    /\ LET fresh == FreshKey(nextKey + 1)
           got == getKeyFromFile(keyFile, fresh)
       IN  IF ~fileOk /\ got.file # keyFile
           THEN /\ RunThrow("writeKeyFile", masterAccount, "key file")
                /\ UNCHANGED <<keyStore, keyFile, nextKey>>
           ELSE /\ keyFile' = got.file
                /\ nextKey' = IF got.key = fresh THEN nextKey + 1 ELSE nextKey
                /\ IF storeOk
                   THEN /\ keyStore' = storeSetKey(keyStore, masterAccount, got.key)
                        /\ Ran("setKey", masterAccount)
                        /\ rpc' = IF network = "testnet" THEN "createMaster" ELSE "serverStart"
                        /\ UNCHANGED caught
                   ELSE /\ RunThrow("setKey", masterAccount, "key store")
                        /\ UNCHANGED keyStore
    /\ UNCHANGED <<accountsCreated, chain, callVars, callHist, keyHist, network, rootAccount,
                   fileName, grant, manager, cpc, error, listing, accounts, accountId, temporaryId,
                   initial, pending, settled, deletesIssued, cleanupVars, masterAccount, server,
                   runResult>>

\* TestnetRuntime.beforeConnect, lines 292-295: accountCreator.createAccount(masterAccount, key)
TestnetCreateMaster(ok) ==
    /\ rpc = "createMaster"
    /\ IF ok
       THEN /\ chain' = helperCreate(chain, masterAccount, grant)
            /\ Ran("createAccount", masterAccount)
            /\ rpc' = "connect"
            /\ UNCHANGED caught
       ELSE /\ RunThrow("createAccount", masterAccount, "creation service")
            /\ UNCHANGED chain
    /\ UNCHANGED <<keyStore, accountsCreated, nextKey, callVars, callHist, keyHist, network,
                   rootAccount, fileName, keyFile, grant, manager, cpc, error, listing, accounts,
                   accountId, temporaryId, initial, pending, settled, deletesIssued, cleanupVars,
                   masterAccount, server, runResult>>

\* a step of run that touches nothing the model holds: it returns, or throws why
RunStep(at, op, ok, why, next) ==
    /\ rpc = at
    /\ IF ok
       THEN /\ Ran(op, masterAccount)
            /\ rpc' = next
            /\ UNCHANGED caught
       ELSE RunThrow(op, masterAccount, why)
    /\ UNCHANGED <<storeVars, callVars, callHist, keyHist, network, rootAccount, fileName, keyFile,
                   grant, manager, cpc, error, listing, accounts, accountId, temporaryId, initial,
                   pending, settled, deletesIssued, cleanupVars, masterAccount, server, runResult>>

\* SandboxRuntime.beforeConnect, line 394: await this.server.start()
SandboxServerStart(ok) == RunStep("serverStart", "server.start", ok, "server start", "connect")

\* run, line 164: await this.connect()
RunConnect(ok) == RunStep("connect", "connect", ok, "connect", "afterConnect")

\* run, line 166: await this.afterConnect(); only TestnetRuntime overrides it, to run initFn
RunAfterConnect(ok) ==
    /\ ~ok => network = "testnet"
    /\ RunStep("afterConnect", "afterConnect", ok, "initFn", "fn")

\* run, line 168: await fn(this)
RunFn(ok) == RunStep("fn", "fn", ok, "fn", "afterRun")

\* SandboxRuntime.afterRun, line 398, reads this.server.port: a TypeError when
\* beforeConnect never assigned the server; TestnetRuntime.afterRun is empty
afterRunThrows(net, srv) == net = "sandbox" /\ ~srv

\* what run's caller gets: an error thrown inside finally replaces the one re-thrown
runOutcome(e, teardownThrew) ==
    IF teardownThrew THEN "TypeError" ELSE IF e # "none" THEN e ELSE "resolved"

\* run, lines 172-175: finally { await this.afterRun() }, then run settles
RunAfterRun ==
    /\ rpc = "afterRun"
    /\ io' = Append(io, [op |-> "afterRun", id |-> masterAccount,
                         threw |-> afterRunThrows(network, server)])
    /\ runResult' = runOutcome(caught, afterRunThrows(network, server))
    /\ rpc' = "done"
    /\ UNCHANGED <<storeVars, callVars, callHist, keyHist, network, rootAccount, fileName, keyFile,
                   grant, manager, cpc, error, listing, accounts, accountId, temporaryId, initial,
                   pending, settled, deletesIssued, cleanupVars, masterAccount, server, caught>>

InitRun ==
    /\ network \in {"testnet", "sandbox"}
    /\ IF network = "testnet"
       THEN /\ masterAccount \in {NoRoot, CustomMaster}
            /\ grant \in Grants
            /\ chain = EmptyMap
            /\ keyStore \in {EmptyMap, (CustomMaster :> 1)}
       ELSE /\ masterAccount = RootId
            /\ grant = 0
            /\ chain = (RootId :> 0)
            /\ keyStore \in {EmptyMap} \cup {[id \in {RootId} |-> k] : k \in SuppliedKeys}
    /\ keyFile \in KeyFiles
    /\ accountsCreated = EmptyMap
    /\ nextKey = 0
    /\ InitCalls({1})
    /\ createdOnChain = {}
    /\ createRequested = {}
    /\ lastCall = NoCall
    /\ prevCall = NoCall
    /\ rootAccount = NoRoot
    /\ fileName = <<>>
    /\ manager = "none"
    /\ cpc = "ready"
    /\ error = "none"
    /\ io = <<>>
    /\ listing = <<>>
    /\ accounts = <<>>
    /\ accountId = NoRoot
    /\ pending = {}
    /\ settled = {}
    /\ deletesIssued = <<>>
    /\ temporaryId = NoRoot
    /\ initial = [keyStore |-> keyStore, chain |-> chain, keyFile |-> keyFile,
                  rootAccount |-> masterAccount]
    /\ NoCleanup
    /\ rpc = "idle"
    /\ server = FALSE
    /\ caught = "none"
    /\ runResult = "none"

NextRun ==
    \/ RunStart
    \/ RunGetKeyStore
    \/ TestnetBeforeConnect
    \/ \E ok \in BOOLEAN, init \in BOOLEAN : SandboxServerInit(ok, init)
    \/ \E fileOk \in BOOLEAN, storeOk \in BOOLEAN : RunAddMasterKey(fileOk, storeOk)
    \/ \E ok \in BOOLEAN : TestnetCreateMaster(ok)
    \/ \E ok \in BOOLEAN : SandboxServerStart(ok)
    \/ \E ok \in BOOLEAN : RunConnect(ok)
    \/ \E ok \in BOOLEAN : RunAfterConnect(ok)
    \/ \E ok \in BOOLEAN : RunFn(ok)
    \/ RunAfterRun

SpecRun == InitRun /\ [][NextRun]_vars

\* the calls of run recorded under one name
callsOf(op) == {i \in DOMAIN io : io[i].op = op}

\* C18: Runtime.run on a TestnetRuntime with a custom masterAccount configured: the
\* run fails with the configuration error thrown by beforeConnect; no key is stored
\* (in the key store or the key file), no account creation is requested, neither
\* connect nor the run function is invoked.
C18_CustomMasterFailsAtSetup ==
    (network = "testnet" /\ initial.rootAccount # NoRoot) =>
        /\ keyStore = initial.keyStore
        /\ keyFile = initial.keyFile
        /\ chain = initial.chain
        /\ masterAccount = initial.rootAccount
        /\ callsOf("setKey") \cup callsOf("createAccount") \cup callsOf("connect")
               \cup callsOf("fn") = {}
        /\ rpc \in {"idle", "getKeyStore", "beforeConnect", "afterRun", "done"}
        /\ rpc \in {"afterRun", "done"} => caught = CustomMasterError
        /\ rpc = "done" => runResult = CustomMasterError

C18_Witness ==
    /\ network = "testnet"
    /\ initial.rootAccount = CustomMaster
    /\ rpc = "done"
    /\ runResult = CustomMasterError
    /\ callsOf("beforeConnect") # {}
    /\ callsOf("fn") = {}

\* C20: Runtime.run invokes afterRun exactly once, as its last step, after the setup
\* steps and the run function have finished or one of them has thrown; when one of
\* them threw, the caller of run gets that same error, and otherwise run resolves.
C20_AfterRunOnceErrorRethrown ==
    /\ rpc # "done" => callsOf("afterRun") = {}
    /\ rpc = "done" =>
          /\ callsOf("afterRun") = {Len(io)}
          /\ caught # "none" => runResult = caught
          /\ caught = "none" => (callsOf("fn") # {} /\ runResult = "resolved")

(***************************************************************************)
(* The order of the steps of one executeTransaction call                   *)
(* (specification Spec)                                                    *)
(***************************************************************************)

\* C19: one executeTransaction call with a temporary keyPair goes: read the previous
\* key, store keyPair for the sender, sign and submit, store the previous key.  The
\* key read is the one stored at entry; while the transaction is signed and
\* submitted the key stored for the sender is keyPair; the previous key is written
\* back only when the submission has been answered.
C19_SwapSignRestoreInOrder ==
    \A t \in Tasks :
        keyPair[t] # NoKey =>
            /\ pc[t] = "setTemp" =>
                  /\ oldKey[t] = keyBefore[t]
                  /\ getKey(keyStore, tx[t].senderId) = keyBefore[t]
            /\ pc[t] = "send" =>
                  /\ oldKey[t] = keyBefore[t]
                  /\ getKey(keyStore, tx[t].senderId) = keyPair[t]
                  /\ outcome[t] = "none"
            /\ pc[t] \in {"restore", "returned", "done", "thrown"} =>
                  /\ signedWith[t] = keyPair[t]
                  /\ outcome[t] # "none"
            /\ pc[t] = "restore" => getKey(keyStore, tx[t].senderId) = keyPair[t]
            /\ (pc[t] = "returned" /\ oldKey[t] # NoKey) =>
                  getKey(keyStore, tx[t].senderId) = oldKey[t]

C19_Witness ==
    \E t \in Tasks :
        /\ pc[t] = "returned"
        /\ keyPair[t] # NoKey
        /\ keyBefore[t] # NoKey
        /\ keyBefore[t] # keyPair[t]
        /\ signedWith[t] = keyPair[t]
        /\ getKey(keyStore, tx[t].senderId) = keyBefore[t]

====
